---- MODULE Spec2Model ----
(***************************************************************************)
(* genisolist: rule evaluation (parse_section), aggregation                *)
(* (gen_from_sections) and the platform scorer (get_platform_priority) of  *)
(* src/genisolist.py, as a state machine of one Python process that calls  *)
(* these functions one after the other.                                    *)
(*                                                                         *)
(* Python str values are TLA+ strings; a Python dict with optional keys is *)
(* a record whose DOMAIN holds the keys that are present.                  *)
(***************************************************************************)
EXTENDS Integers, Sequences, FiniteSets, TLC

(***************************************************************************)
(* Bounds of the model.                                                    *)
(***************************************************************************)
\* files of one scanned tree (one filesystem snapshot below a root)
MaxFiles == 3
\* rule sections of one configuration handed to gen_from_sections
MaxRules == 2
\* files of the tree that a configuration's rules are evaluated on
MaxPooled == 2
\* largest listvers value of the enumerated rules
MaxListvers == 2

(***************************************************************************)
(* Strings.                                                                *)
(***************************************************************************)
\* str.__contains__: `sub in s`
Contains(s, sub) ==
    \E i \in 1..(Len(s) - Len(sub) + 1) : SubSeq(s, i, i + Len(sub) - 1) = sub

\* iterating a str yields its characters, one-character strings
Chars(s) == [i \in 1..Len(s) |-> SubSeq(s, i, i)]

\* the characters of the model's strings in code-point order
Alphabet == "$-./0123456789ABCDEFGHIJKLMNOPQRSTUVWXYZ_abcdefghijklmnopqrstuvwxyz"

Ord(c) == CHOOSE i \in 1..Len(Alphabet) : SubSeq(Alphabet, i, i) = c

UpperCase == "ABCDEFGHIJKLMNOPQRSTUVWXYZ"

LowerCase == "abcdefghijklmnopqrstuvwxyz"

UpperLetters == { SubSeq(UpperCase, i, i) : i \in 1..Len(UpperCase) }

LowerChar(c) ==
    IF c \in UpperLetters
    THEN LET i == CHOOSE k \in 1..Len(UpperCase) : SubSeq(UpperCase, k, k) = c
         IN  SubSeq(LowerCase, i, i)
    ELSE c

RECURSIVE Lower(_)
\* str.lower()
Lower(s) ==
    IF s = "" THEN ""
    ELSE LowerChar(SubSeq(s, 1, 1)) \o Lower(SubSeq(s, 2, Len(s)))

RECURSIVE StrCmp(_, _)
\* the order of two str values: "lt", "eq" or "gt"
StrCmp(a, b) ==
    IF a = "" /\ b = "" THEN "eq"
    ELSE IF a = "" THEN "lt"
    ELSE IF b = "" THEN "gt"
    ELSE IF SubSeq(a, 1, 1) = SubSeq(b, 1, 1)
         THEN StrCmp(SubSeq(a, 2, Len(a)), SubSeq(b, 2, Len(b)))
    ELSE IF Ord(SubSeq(a, 1, 1)) < Ord(SubSeq(b, 1, 1)) THEN "lt"
    ELSE "gt"

RECURSIVE Replace(_, _, _)
\* str.replace(old, new), old not empty: leftmost occurrences, not overlapping
Replace(s, old, new) ==
    IF Len(s) < Len(old) THEN s
    ELSE IF SubSeq(s, 1, Len(old)) = old
         THEN new \o Replace(SubSeq(s, Len(old) + 1, Len(s)), old, new)
    ELSE SubSeq(s, 1, 1) \o Replace(SubSeq(s, 2, Len(s)), old, new)

Digits == "0123456789"

DigitChars == { SubSeq(Digits, i, i) : i \in 1..Len(Digits) }

IsDigit(c) == c \in DigitChars

DigitVal(c) == (CHOOSE i \in 1..Len(Digits) : SubSeq(Digits, i, i) = c) - 1

IsNumeral(s) == s # "" /\ \A i \in 1..Len(s) : IsDigit(SubSeq(s, i, i))

RECURSIVE ToInt(_)
\* int(s) of a string of decimal digits
ToInt(s) ==
    IF Len(s) = 1 THEN DigitVal(s)
    ELSE 10 * ToInt(SubSeq(s, 1, Len(s) - 1)) + DigitVal(SubSeq(s, Len(s), Len(s)))

(***************************************************************************)
(* get_platform_priority                                                   *)
(***************************************************************************)
\* the keys of `architectures` in insertion order, each with what iterating
\* the key yields: the members of a tuple, the characters of a str.
\* ("riscv64") is a parenthesised str, not a tuple.
architectures ==
    << [arches |-> <<"amd64", "x86_64", "64bit">>, score |-> 100],
       [arches |-> <<"arm64", "aarch64", "arm64v8">>, score |-> 95],
       [arches |-> Chars("riscv64"), score |-> 95],
       [arches |-> <<"loongson2f", "loongson3">>, score |-> 95],
       [arches |-> <<"i386", "i486", "i586", "i686", "x86", "32bit">>, score |-> 90],
       [arches |-> <<"arm32", "armhf", "armv7">>, score |-> 85] >>

oses ==
    << [os |-> "linux", score |-> 5000],
       [os |-> "win", score |-> 4000],
       [os |-> "mac", score |-> 3000],
       [os |-> "android", score |-> 2000] >>

RECURSIVE ArchScore(_, _)
\* the loop over architectures: the first key with a member in the platform
ArchScore(platform, i) ==
    IF i > Len(architectures) THEN 0
    ELSE IF \E k \in 1..Len(architectures[i].arches) :
                Contains(platform, architectures[i].arches[k])
         THEN architectures[i].score
    ELSE ArchScore(platform, i + 1)

RECURSIVE OsScore(_, _)
\* the loop over oses: the first os that occurs in the platform
OsScore(platform, i) ==
    IF i > Len(oses) THEN 0
    ELSE IF Contains(platform, oses[i].os) THEN oses[i].score
    ELSE OsScore(platform, i + 1)

get_platform_priority(platform) ==
    LET lowered == Lower(platform)
    IN  ArchScore(lowered, 1) + OsScore(lowered, 1)

(***************************************************************************)
(* Python values that are compared while sorting: int, str and             *)
(* LooseVersion, each tagged with its type.  A comparison yields "lt",     *)
(* "eq", "gt", or "err" where Python raises TypeError.                     *)
(***************************************************************************)
PyInt(n) == [ty |-> "int", n |-> n]

PyStr(s) == [ty |-> "str", s |-> s]

RECURSIVE RunEnd(_, _, _)
\* the end of the run of digits (or of non-digits) that starts at position i
RunEnd(s, i, digit) ==
    IF i < Len(s) /\ IsDigit(SubSeq(s, i + 1, i + 1)) = digit
    THEN RunEnd(s, i + 1, digit)
    ELSE i

RECURSIVE Runs(_)
\* a version string as alternating runs: digits as int, the others as str
Runs(s) ==
    IF s = "" THEN << >>
    ELSE LET digit == IsDigit(SubSeq(s, 1, 1))
             e == RunEnd(s, 1, digit)
             run == SubSeq(s, 1, e)
         IN  << IF digit THEN PyInt(ToInt(run)) ELSE PyStr(run) >>
                 \o Runs(SubSeq(s, e + 1, Len(s)))

\* LooseVersion(vstring) of the `version` module
LooseVersion(vstring) ==
    [ty |-> "LooseVersion", vstring |-> vstring, version |-> Runs(vstring)]

IntCmp(a, b) == IF a < b THEN "lt" ELSE IF a = b THEN "eq" ELSE "gt"

RECURSIVE Cmp(_, _)
RECURSIVE ListCmp(_, _, _)
\* list comparison: the first index where the items differ decides (and
\* raises where they cannot be ordered); else the shorter list is smaller
ListCmp(x, y, i) ==
    IF i > Len(x) \/ i > Len(y) THEN IntCmp(Len(x), Len(y))
    ELSE LET c == Cmp(x[i], y[i])
         IN  IF c = "eq" THEN ListCmp(x, y, i + 1) ELSE c

\* a LooseVersion compares with a LooseVersion and with a version string;
\* int with int; str with str; any other pair is unequal and unorderable
Cmp(a, b) ==
    CASE a.ty = "int" /\ b.ty = "int" -> IntCmp(a.n, b.n)
      [] a.ty = "str" /\ b.ty = "str" -> StrCmp(a.s, b.s)
      [] a.ty = "LooseVersion" /\ b.ty = "LooseVersion" ->
            ListCmp(a.version, b.version, 1)
      [] a.ty = "LooseVersion" /\ b.ty = "str" ->
            ListCmp(a.version, Runs(b.s), 1)
      [] a.ty = "str" /\ b.ty = "LooseVersion" ->
            ListCmp(Runs(a.s), b.version, 1)
      [] OTHER -> "err"

\* the comparison of two sort_weight lists
KeyCmp(x, y) == ListCmp(x, y, 1)

(***************************************************************************)
(* list.sort(key=lambda x: x["sort_weight"], reverse=True)                 *)
(***************************************************************************)
\* a comparison of the sort raises TypeError
SortRaises(items) ==
    \E i, j \in 1..Len(items) :
        i < j /\ KeyCmp(items[i].sort_weight, items[j].sort_weight) = "err"

RECURSIVE InsertDesc(_, _, _)
\* x goes before the first item, from position i on, whose key is smaller
InsertDesc(sorted, x, i) ==
    IF i > Len(sorted) THEN Append(sorted, x)
    ELSE IF KeyCmp(sorted[i].sort_weight, x.sort_weight) = "lt"
         THEN SubSeq(sorted, 1, i - 1) \o <<x>> \o SubSeq(sorted, i, Len(sorted))
    ELSE InsertDesc(sorted, x, i + 1)

RECURSIVE SortedDesc(_)
\* descending and stable: items with equal keys keep their order
SortedDesc(items) ==
    IF items = << >> THEN << >>
    ELSE InsertDesc(SortedDesc(SubSeq(items, 1, Len(items) - 1)),
                    items[Len(items)], 1)

(***************************************************************************)
(* Dictionaries, templates, str2bool                                       *)
(***************************************************************************)
\* the empty dict
EmptyDict == [k \in {} |-> ""]

\* dict.get(key, default)
Get(d, key, default) == IF key \in DOMAIN d THEN d[key] ELSE default

\* re.Match.group(i); groups are numbered from 0 (the whole match)
Group(result, i) == result.groups[i + 1]

\* the text of a group; a group that did not take part (None) gives ""
GroupText(g) == IF g.none THEN "" ELSE g.s

RECURSIVE RenderFrom(_, _, _)
\* the loop of render from group i on: every "$i" becomes the group's text
RenderFrom(template, result, i) ==
    IF i > Len(result.groups) - 1 THEN template
    ELSE LET ref == "$" \o ToString(i)
         IN  RenderFrom(IF Contains(template, ref)
                        THEN Replace(template, ref, GroupText(Group(result, i)))
                        ELSE template,
                        result, i + 1)

render(template, result) == RenderFrom(template, result, 0)

RECURSIVE Split(_)
\* str.split(): the words between runs of blanks
Split(s) ==
    IF s = "" THEN << >>
    ELSE IF SubSeq(s, 1, 1) = " " THEN Split(SubSeq(s, 2, Len(s)))
    ELSE LET RECURSIVE WordEnd(_)
             WordEnd(i) == IF i < Len(s) /\ SubSeq(s, i + 1, i + 1) # " "
                           THEN WordEnd(i + 1) ELSE i
             e == WordEnd(1)
         IN  <<SubSeq(s, 1, e)>> \o Split(SubSeq(s, e + 1, Len(s)))

\* render_list raises: int(item[1:]) fails or the match has no such group
RenderListRaises(template, result) ==
    \E k \in 1..Len(Split(template)) :
        LET item == Split(template)[k]
        IN  /\ SubSeq(item, 1, 1) = "$"
            /\ \/ ~IsNumeral(SubSeq(item, 2, Len(item)))
               \/ ToInt(SubSeq(item, 2, Len(item))) > Len(result.groups) - 1

render_list(template, result) ==
    LET items == Split(template)
    IN  [k \in 1..Len(items) |->
            IF SubSeq(items[k], 1, 1) # "$" THEN items[k]
            ELSE GroupText(Group(result, ToInt(SubSeq(items[k], 2, Len(items[k])))))]

\* str2bool(v) is defined for these values and raises ValueError for the rest
IsBool(v) == Lower(v) \in {"true", "false"}

str2bool(v) == Lower(v) = "true"

(***************************************************************************)
(* The scanned tree and the pattern.  A tree is the sequence of the        *)
(* root-relative paths of its files, "<dir>/d-<version>-<platform>.iso",   *)
(* in directory-listing order.                                             *)
(***************************************************************************)
RECURSIVE Find(_, _, _)
\* the first position from i on where character c stands, 0 if none
Find(s, c, i) ==
    IF i > Len(s) THEN 0
    ELSE IF SubSeq(s, i, i) = c THEN i
    ELSE Find(s, c, i + 1)

DirOf(path) == SubSeq(path, 1, Find(path, "/", 1) - 1)

NameOf(path) == SubSeq(path, Find(path, "/", 1) + 1, Len(path))

RECURSIVE DirsOf(_)
\* the directories of a tree, each once, in listing order
DirsOf(tree) ==
    IF tree = << >> THEN << >>
    ELSE LET rest == DirsOf(SubSeq(tree, 1, Len(tree) - 1))
             d == DirOf(tree[Len(tree)])
         IN  IF \E k \in 1..Len(rest) : rest[k] = d THEN rest ELSE Append(rest, d)

RECURSIVE Concat(_)
Concat(seqs) == IF seqs = << >> THEN << >> ELSE Head(seqs) \o Concat(Tail(seqs))

\* root.glob(location) for a location "<dir>/*" or "*/*": directory by
\* directory, the files of each in listing order
Glob(tree, location) ==
    LET want == DirOf(location)
        dirs == SelectSeq(DirsOf(tree), LAMBDA d : want = "*" \/ want = d)
    IN  Concat([k \in 1..Len(dirs) |->
                    SelectSeq(tree, LAMBDA f : DirOf(f) = dirs[k])])

\* the regular expressions of the enumerated rules
PatternAny == "d-([0-9]+)-([a-z0-9]+)[.](iso)"

PatternAmd64 == "d-([0-9]+)-(amd64)[.](iso)"

NoMatch == [matched |-> FALSE, groups |-> << >>]

\* re.compile(pattern).search(text) for the patterns above on the paths (or
\* names) of a tree: the version, platform and extension groups
Search(pattern, text) ==
    LET name == IF Find(text, "/", 1) = 0 THEN text ELSE NameOf(text)
        dash == Find(name, "-", 3)
        dot == Find(name, ".", 1)
        ver == SubSeq(name, 3, dash - 1)
        plat == SubSeq(name, dash + 1, dot - 1)
        ext == SubSeq(name, dot + 1, Len(name))
        g(s) == [none |-> FALSE, s |-> s]
    IN  IF /\ pattern \in {PatternAny, PatternAmd64}
           /\ SubSeq(name, 1, 2) = "d-" /\ dash > 3 /\ dot > dash + 1
           /\ IsNumeral(ver) /\ ext = "iso"
           /\ pattern = PatternAmd64 => plat = "amd64"
        THEN [matched |-> TRUE,
              groups |-> <<g(SubSeq(name, 1, Len(name))), g(ver), g(plat), g(ext)>>]
        ELSE NoMatch

(***************************************************************************)
(* parse_section                                                           *)
(***************************************************************************)
\* the default of listvers
DefaultListvers == 255

RECURSIVE NumberedLocations(_, _)
\* location_0, location_1, ... up to the first index that is missing
NumberedLocations(section, i) ==
    LET key == "location_" \o ToString(i)
    IN  IF key \notin DOMAIN section THEN << >>
        ELSE <<section[key]>> \o NumberedLocations(section, i + 1)

Locations(section) ==
    IF "location" \in DOMAIN section THEN <<section["location"]>>
    ELSE NumberedLocations(section, 0)

\* the sort key of a matched file: version, platform priority and type, or
\* the rendered sort_by list
SortWeight(section, file_item, result) ==
    IF Get(section, "sort_by", "") = ""
    THEN << LooseVersion(file_item.version),
            PyInt(get_platform_priority(file_item.platform)),
            PyStr(file_item.type) >>
    ELSE LET l == render_list(section["sort_by"], result)
         IN  [k \in 1..Len(l) |-> PyStr(l[k])]

\* the match result of a scanned path
SearchIn(section, path) ==
    IF str2bool(Get(section, "pattern_use_name", "false"))
    THEN Search(section["pattern"], NameOf(path))
    ELSE Search(section["pattern"], path)

\* the file_item of a matched path
FileItem(section, path, result) ==
    LET item == [path |-> path,
                 category |-> Get(section, "category", "os"),
                 distro |-> section["distro"],
                 version |-> render(Get(section, "version", ""), result),
                 type |-> render(Get(section, "type", ""), result),
                 platform |-> render(Get(section, "platform", ""), result)]
    IN  [path |-> item.path, category |-> item.category, distro |-> item.distro,
         version |-> item.version, type |-> item.type, platform |-> item.platform,
         sort_weight |-> SortWeight(section, item, result)]

\* the paths the two loops visit, in order: every location's glob result
Scanned(section, tree) ==
    LET locations == Locations(section)
    IN  Concat([k \in 1..Len(locations) |-> Glob(tree, locations[k])])

\* the scanned paths that match the pattern, each with its match result
Matched(section, tree) ==
    LET scanned == Scanned(section, tree)
        found == [k \in 1..Len(scanned) |->
                     [path |-> scanned[k], result |-> SearchIn(section, scanned[k])]]
    IN  SelectSeq(found, LAMBDA m : m.result.matched)

\* what the loops append to the `files` dict: the file item of every match
\* with the key, the rendering of key_by, it is appended under
Candidates(section, matched) ==
    [k \in 1..Len(matched) |->
        [key |-> render(Get(section, "key_by", ""), matched[k].result),
         item |-> FileItem(section, matched[k].path, matched[k].result)]]

RECURSIVE KeysOf(_)
\* the keys of the `files` dict in insertion order
KeysOf(candidates) ==
    IF candidates = << >> THEN << >>
    ELSE LET rest == KeysOf(SubSeq(candidates, 1, Len(candidates) - 1))
             k == candidates[Len(candidates)].key
         IN  IF \E i \in 1..Len(rest) : rest[i] = k THEN rest ELSE Append(rest, k)

\* files[key]: the file items of one key, in the order they were appended
FilesOf(candidates, key) ==
    LET mine == SelectSeq(candidates, LAMBDA c : c.key = key)
    IN  [k \in 1..Len(mine) |-> mine[k].item]

\* int(section.get("listvers", 0xFF))
Listvers(section) ==
    IF "listvers" \in DOMAIN section THEN ToInt(section["listvers"])
    ELSE DefaultListvers

RECURSIVE CappedInclusive(_, _, _, _)
\* Capped with the item appended before the test of the loop
CappedInclusive(file_list, i, versions, listvers) ==
    IF i > Len(file_list) THEN << >>
    ELSE LET seen == versions \cup {file_list[i].version}
         IN  <<file_list[i]>> \o
             (IF Cardinality(seen) > listvers THEN << >>
              ELSE CappedInclusive(file_list, i + 1, seen, listvers))

RECURSIVE Capped(_, _, _, _)
\* the loop over a sorted file_list from item i on: the version is added to
\* `versions` first, and the loop ends once they number more than listvers
Capped(file_list, i, versions, listvers) ==
    IF i > Len(file_list) THEN << >>
    ELSE LET seen == versions \cup {file_list[i].version}
         IN  IF Cardinality(seen) > listvers THEN << >>
             ELSE <<file_list[i]>> \o Capped(file_list, i + 1, seen, listvers)

\* what one key contributes to the results: its list sorted, then capped
KeyResults(section, candidates, key) ==
    Capped(SortedDesc(FilesOf(candidates, key)), 1, {}, Listvers(section))

\* the exception parse_section raises, "" if it returns
SectionError(section, tree) ==
    IF Locations(section) = << >> THEN "AssertionError"
    ELSE IF Get(section, "pattern", "") = "" THEN "AssertionError"
    ELSE IF ~IsNumeral(Get(section, "listvers", "255")) THEN "ValueError"
    ELSE IF ~IsBool(Get(section, "pattern_use_name", "false")) THEN "ValueError"
    ELSE LET matched == Matched(section, tree)
         IN  IF matched = << >> THEN ""
             ELSE IF "distro" \notin DOMAIN section THEN "KeyError"
             ELSE IF /\ Get(section, "sort_by", "") # ""
                     /\ \E k \in 1..Len(matched) :
                           RenderListRaises(section["sort_by"], matched[k].result)
                  THEN "IndexError"
             ELSE ""

\* parse_section(section, root): the exception raised, or the list returned
parse_section(section, tree) ==
    LET error == SectionError(section, tree)
        candidates == Candidates(section, Matched(section, tree))
        keys == KeysOf(candidates)
    IN  IF error # ""
        THEN [raised |-> TRUE, error |-> error, items |-> << >>]
        ELSE [raised |-> FALSE, error |-> "",
              items |-> Concat([k \in 1..Len(keys) |->
                                   KeyResults(section, candidates, keys[k])])]

(***************************************************************************)
(* parse_file                                                              *)
(***************************************************************************)
RECURSIVE LastSlash(_, _)
LastSlash(s, i) == IF i = 0 \/ SubSeq(s, i, i) = "/" THEN i ELSE LastSlash(s, i - 1)

\* urljoin(base, url) of a relative path: it replaces what follows the
\* last "/" of the base
urljoin(base, url) == SubSeq(base, 1, LastSlash(base, Len(base))) \o url

parse_file(file_item, urlbase) ==
    [name |-> IF file_item.platform # ""
              THEN file_item.version \o " (" \o file_item.platform
                     \o (IF file_item.type # "" THEN ", " \o file_item.type ELSE "")
                     \o ")"
              ELSE file_item.version,
     url |-> urljoin(urlbase, file_item.path)]

(***************************************************************************)
(* gen_from_sections.  `sections` is the dict in insertion order: a        *)
(* sequence of [sname, section]; the section of "%distro%" is the          *)
(* sequence of its <<key, value>> items.                                   *)
(***************************************************************************)
\* the sort key of a distribution that the priority table does not hold
AbsentPriority == 65535

StartsWith(s, prefix) == Len(s) >= Len(prefix) /\ SubSeq(s, 1, Len(prefix)) = prefix

\* sections.get(name, default)
SectionNamed(sections, name, default) ==
    IF \E k \in 1..Len(sections) : sections[k].sname = name
    THEN sections[CHOOSE k \in 1..Len(sections) : sections[k].sname = name].section
    ELSE default

RECURSIVE PriorityOf(_, _, _)
\* dN.get(distro, 0xFFFF): the loop over the items of %distro% stores
\* int(key[1:]) under the value, so the last item naming the distro counts
PriorityOf(items, distro, i) ==
    IF i = 0 THEN AbsentPriority
    ELSE IF StartsWith(items[i][1], "d") /\ items[i][2] = distro
         THEN ToInt(SubSeq(items[i][1], 2, Len(items[i][1])))
    ELSE PriorityOf(items, distro, i - 1)

dN(sections, distro) ==
    LET items == SectionNamed(sections, "%distro%", << >>)
    IN  PriorityOf(items, distro, Len(items))

\* results[key].append(file_item) for every item: the group of a new key
\* is created, at the end of the dict, by its first item
Pooled(results, key, items) ==
    IF items = << >> THEN results
    ELSE IF \E k \in 1..Len(results) : results[k].key = key
         THEN [k \in 1..Len(results) |->
                  IF results[k].key = key
                  THEN [key |-> key, items |-> results[k].items \o items]
                  ELSE results[k]]
    ELSE Append(results, [key |-> key, items |-> items])

\* the group key of a rule section: its distro and its category
GroupKey(section) == <<section["distro"], Get(section, "category", "os")>>

\* the final sort of a pooled group raises TypeError
PoolRaises(results) == \E k \in 1..Len(results) : SortRaises(results[k].items)

\* OutputGroup without the second sort: the items in pooled order
OutputGroupAsPooled(group, urlbase) ==
    [distro |-> group.key[1], category |-> group.key[2],
     urls |-> [k \in 1..Len(group.items) |-> parse_file(group.items[k], urlbase)]]

\* one output record: the group sorted again, every item through parse_file
OutputGroup(group, urlbase) ==
    LET v == SortedDesc(group.items)
    IN  [distro |-> group.key[1], category |-> group.key[2],
         urls |-> [k \in 1..Len(v) |-> parse_file(v[k], urlbase)]]

RECURSIVE InsertByPriority(_, _, _, _)
InsertByPriority(sections, sorted, x, i) ==
    IF i > Len(sorted) THEN Append(sorted, x)
    ELSE IF dN(sections, x.distro) < dN(sections, sorted[i].distro)
         THEN SubSeq(sorted, 1, i - 1) \o <<x>> \o SubSeq(sorted, i, Len(sorted))
    ELSE InsertByPriority(sections, sorted, x, i + 1)

RECURSIVE SortedByPriority(_, _)
\* results.sort(key=lambda x: dN.get(x["distro"], 0xFFFF)): ascending, stable
SortedByPriority(sections, groups) ==
    IF groups = << >> THEN << >>
    ELSE InsertByPriority(sections,
                          SortedByPriority(sections, SubSeq(groups, 1, Len(groups) - 1)),
                          groups[Len(groups)], 1)

\* the list gen_from_sections returns from the pooled results
Listing(sections, results) ==
    LET urlbase == Get(SectionNamed(sections, "%main%", EmptyDict), "urlbase", "/")
    IN  SortedByPriority(sections,
            [k \in 1..Len(results) |-> OutputGroup(results[k], urlbase)])

Reserved(sname) == StartsWith(sname, "%")

RECURSIVE GenLoop(_, _, _, _, _, _)
\* the loop over the sections from position i on and what follows it;
\* `flag` tells whether exit_with_error has been assigned True
GenLoop(sections, strict, tree, i, pooled, flag) ==
    IF i > Len(sections)
    THEN IF PoolRaises(pooled)
         THEN [raised |-> TRUE, error |-> "TypeError", value |-> << >>, flag |-> flag]
         ELSE [raised |-> FALSE, error |-> "", value |-> Listing(sections, pooled),
               flag |-> flag]
    ELSE IF Reserved(sections[i].sname)
         THEN GenLoop(sections, strict, tree, i + 1, pooled, flag)
    ELSE IF "distro" \notin DOMAIN sections[i].section
         THEN [raised |-> TRUE, error |-> "KeyError", value |-> << >>, flag |-> flag]
    ELSE LET section == sections[i].section
             error == SectionError(section, tree)
         IN  IF error = ""
             THEN GenLoop(sections, strict, tree, i + 1,
                          Pooled(pooled, GroupKey(section),
                                 parse_section(section, tree).items), flag)
             ELSE IF strict
                  THEN [raised |-> TRUE, error |-> error, value |-> << >>, flag |-> TRUE]
             ELSE GenLoop(sections, strict, tree, i + 1, pooled, TRUE)

\* gen_from_sections(sections, strict) on a tree, as one function
gen_from_sections(sections, strict, tree) ==
    GenLoop(sections, strict, tree, 1, << >>, FALSE)

(***************************************************************************)
(* The inputs of the calls.                                                *)
(***************************************************************************)
\* the platform strings handed to get_platform_priority
Platforms ==
    { "amd64", "x86_64", "64bit", "arm64", "aarch64", "arm64v8", "riscv64",
      "loongson2f", "loongson3", "i386", "i486", "i586", "i686", "x86", "32bit",
      "arm32", "armhf", "armv7", "unknown", "", "AMD64", "linux-amd64",
      "win-amd64", "mac-arm64", "android-armv7", "linux", "ppc" }

\* the files a scanned tree may hold
FileUniverse ==
    { "a/d-9-amd64.iso", "b/d-9-amd64.iso", "a/d-8-arm64.iso", "b/d-8-amd64.iso" }

\* the trees: up to MaxFiles files, in any listing order
Trees ==
    { t \in UNION { [1..n -> FileUniverse] : n \in 0..MaxFiles } :
        \A i, j \in 1..Len(t) : i # j => t[i] # t[j] }

\* the trees the configurations are evaluated on
Snapshots == { t \in Trees : Len(t) <= MaxPooled }

\* the fields every enumerated rule section shares
BaseRule == [pattern |-> PatternAny, version |-> "$1", platform |-> "$2", type |-> "$3"]

\* the rule sections handed to parse_section directly: every combination
\* of location(s), listvers, key_by and sort_by
ValidSections ==
    { [distro |-> "A"] @@ BaseRule @@ loc @@ lv @@ kb @@ sb :
        loc \in { [location |-> "*/*"], [location_0 |-> "a/*", location_1 |-> "*/*"] },
        lv \in {EmptyDict} \cup { [listvers |-> ToString(n)] : n \in 0..MaxListvers },
        kb \in { EmptyDict, [key_by |-> "$2"] },
        sb \in { EmptyDict, [sort_by |-> "$2"], [sort_by |-> "$1 $2"],
                 [sort_by |-> "$2 $1"] } }

\* rule sections on which parse_section raises
InvalidSections ==
    { [distro |-> "A", location |-> "*/*", version |-> "$1"] @@ EmptyDict,
      [distro |-> "A", location_1 |-> "*/*"] @@ BaseRule,
      [distro |-> "A", location |-> "*/*", listvers |-> "many"] @@ BaseRule,
      [distro |-> "A", location |-> "*/*", pattern_use_name |-> "yes"] @@ BaseRule,
      [location |-> "*/*"] @@ BaseRule,
      [distro |-> "A", location |-> "*/*", sort_by |-> "$4"] @@ BaseRule }

\* the rule sections of the configurations, under their section names
Includes ==
    [ ok_a |-> [distro |-> "A", location |-> "a/*"] @@ BaseRule,
      ok_b |-> [distro |-> "A", location |-> "b/*", pattern_use_name |-> "True"] @@ BaseRule,
      custom |-> [distro |-> "A", location |-> "*/*", sort_by |-> "$1 $2"] @@ BaseRule,
      no_pattern |-> [distro |-> "A", location |-> "*/*", version |-> "$1"] @@ EmptyDict,
      no_location |-> [distro |-> "B", location_1 |-> "*/*"] @@ BaseRule,
      no_distro |-> [location |-> "*/*"] @@ BaseRule,
      distro_c |-> [distro |-> "C", category |-> "app", location |-> "*/*",
                    pattern |-> PatternAmd64, version |-> "$1", platform |-> "$2",
                    listvers |-> "1"] @@ EmptyDict,
      two_loc |-> [distro |-> "B", location_0 |-> "a/*", location_1 |-> "*/*"]
                    @@ BaseRule ]

\* the rule parts of the configurations: up to MaxRules sections, each once
RuleLists ==
    { l \in UNION { [1..n -> DOMAIN Includes] : n \in 0..MaxRules } :
        \A i, j \in 1..Len(l) : i # j => l[i] # l[j] }

\* the %distro% sections of the configurations (none: no such section)
PriorityTables ==
    { << >>,
      << <<"d1", "B">>, <<"d2", "A">> >>,
      << <<"d70000", "A">> >> }

\* a configuration as process_ini returns it
Config(table, names) ==
    << [sname |-> "%main%", section |-> [root |-> ".", urlbase |-> "/iso/"]] >>
    \o (IF table = << >> THEN << >>
        ELSE << [sname |-> "%distro%", section |-> table] >>)
    \o [k \in 1..Len(names) |-> [sname |-> names[k], section |-> Includes[names[k]]]]

Configs == { Config(table, names) : table \in PriorityTables, names \in RuleLists }

(***************************************************************************)
(* The process.                                                            *)
(***************************************************************************)
VARIABLES
    exit_with_error,  \* the module's global flag
    pc,               \* "idle", "loop" (in gen_from_sections), "returned", "raised"
    op,               \* the function called last
    args,             \* its arguments
    idx,              \* gen_from_sections: the position of the loop in `sections`
    results,          \* gen_from_sections: the pooled groups, in insertion order
    evaluated,        \* the section names handed to parse_section by this call
    failed,           \* those among them on which parse_section raised
    ret               \* what the call returned, or the exception it raised

vars == <<exit_with_error, pc, op, args, idx, results, evaluated, failed, ret>>

NoReturn == [error |-> "", value |-> << >>]

Init ==
    /\ exit_with_error = FALSE
    /\ pc = "idle"
    /\ op = "none"
    /\ args = EmptyDict
    /\ idx = 0
    /\ results = << >>
    /\ evaluated = << >>
    /\ failed = << >>
    /\ ret = NoReturn

\* no call is running and the caller is about to make one
AtRest == pc = "idle"

\* get_platform_priority(platform)
CallPriority ==
    \E platform \in Platforms :
        /\ AtRest
        /\ op' = "get_platform_priority"
        /\ args' = [platform |-> platform]
        /\ ret' = [error |-> "", value |-> get_platform_priority(platform)]
        /\ pc' = "returned"
        /\ idx' = 0 /\ results' = << >> /\ evaluated' = << >> /\ failed' = << >>
        /\ UNCHANGED exit_with_error

\* parse_section(section, root)
CallParseSection ==
    \E section \in ValidSections \cup InvalidSections, tree \in Trees :
        LET r == parse_section(section, tree)
        IN  /\ AtRest
            /\ op' = "parse_section"
            /\ args' = [section |-> section, tree |-> tree]
            /\ ret' = [error |-> r.error, value |-> r.items]
            /\ pc' = IF r.raised THEN "raised" ELSE "returned"
            /\ idx' = 0 /\ results' = << >> /\ evaluated' = << >> /\ failed' = << >>
            /\ UNCHANGED exit_with_error

\* gen_from_sections(sections, strict) is entered
CallGen ==
    \E sections \in Configs, strict \in BOOLEAN, tree \in Snapshots :
        /\ AtRest
        /\ op' = "gen_from_sections"
        /\ args' = [sections |-> sections, strict |-> strict, tree |-> tree]
        /\ pc' = "loop"
        /\ idx' = 1
        /\ results' = << >> /\ evaluated' = << >> /\ failed' = << >>
        /\ ret' = NoReturn
        /\ UNCHANGED exit_with_error

InLoop == pc = "loop" /\ idx <= Len(args.sections)

\* `continue` on a section whose name starts with "%"
SkipReserved ==
    /\ InLoop
    /\ Reserved(args.sections[idx].sname)
    /\ idx' = idx + 1
    /\ UNCHANGED <<exit_with_error, pc, op, args, results, evaluated, failed, ret>>

\* section["distro"] raises KeyError, before the try block
MissingDistro ==
    /\ InLoop
    /\ ~Reserved(args.sections[idx].sname)
    /\ "distro" \notin DOMAIN args.sections[idx].section
    /\ pc' = "raised"
    /\ ret' = [error |-> "KeyError", value |-> << >>]
    /\ UNCHANGED <<exit_with_error, op, args, idx, results, evaluated, failed>>

\* the try block: parse_section returns and its items are pooled
SectionPooled ==
    /\ InLoop
    /\ ~Reserved(args.sections[idx].sname)
    /\ "distro" \in DOMAIN args.sections[idx].section
    /\ LET section == args.sections[idx].section
       IN  /\ SectionError(section, args.tree) = ""
           /\ results' = Pooled(results, GroupKey(section),
                                parse_section(section, args.tree).items)
    /\ evaluated' = Append(evaluated, args.sections[idx].sname)
    /\ idx' = idx + 1
    /\ UNCHANGED <<exit_with_error, pc, op, args, failed, ret>>

\* the except block: the flag is set, and strict mode raises again
SectionFailed ==
    /\ InLoop
    /\ ~Reserved(args.sections[idx].sname)
    /\ "distro" \in DOMAIN args.sections[idx].section
    /\ LET error == SectionError(args.sections[idx].section, args.tree)
       IN  /\ error # ""
           /\ ret' = IF args.strict THEN [error |-> error, value |-> << >>] ELSE ret
    /\ exit_with_error' = TRUE
    /\ evaluated' = Append(evaluated, args.sections[idx].sname)
    /\ failed' = Append(failed, args.sections[idx].sname)
    /\ pc' = IF args.strict THEN "raised" ELSE pc
    /\ idx' = IF args.strict THEN idx ELSE idx + 1
    /\ UNCHANGED <<op, args, results>>

\* after the loop: every group is sorted and converted, the groups are
\* ordered, and the list is returned; a sort may raise TypeError
Finish ==
    /\ pc = "loop"
    /\ idx > Len(args.sections)
    /\ IF PoolRaises(results)
       THEN pc' = "raised" /\ ret' = [error |-> "TypeError", value |-> << >>]
       ELSE pc' = "returned"
            /\ ret' = [error |-> "", value |-> Listing(args.sections, results)]
    /\ UNCHANGED <<exit_with_error, op, args, idx, results, evaluated, failed>>

\* the caller has taken the result, or has caught the exception
Resume ==
    /\ pc \in {"returned", "raised"}
    /\ pc' = "idle"
    /\ op' = "none"
    /\ args' = EmptyDict
    /\ idx' = 0 /\ results' = << >> /\ evaluated' = << >> /\ failed' = << >>
    /\ ret' = NoReturn
    /\ UNCHANGED exit_with_error

Next ==
    \/ Resume
    \/ CallPriority
    \/ CallParseSection
    \/ CallGen
    \/ SkipReserved
    \/ MissingDistro
    \/ SectionPooled
    \/ SectionFailed
    \/ Finish

Spec == Init /\ [][Next]_vars

(***************************************************************************)
(* Properties.                                                             *)
(***************************************************************************)
Range(seq) == { seq[k] : k \in 1..Len(seq) }

Versions(items) == { items[k].version : k \in 1..Len(items) }

\* a parse_section call has returned
SectionReturned == op = "parse_section" /\ pc = "returned"

\* gen_from_sections has returned
GenReturned == op = "gen_from_sections" /\ pc = "returned"

\* what the loops of the returned parse_section call appended to `files`
CallCandidates == Candidates(args.section, Matched(args.section, args.tree))

\* the items of the returned list that were appended under `key`
KeptOf(key) ==
    SelectSeq(ret.value,
              LAMBDA it : render(Get(args.section, "key_by", ""),
                                 SearchIn(args.section, it.path)) = key)

\* C1: for every grouping key of a rule, the items parse_section returns for
\* that key carry at most listvers distinct versions; they are the sorted
\* list of the key up to, and without, the item whose version brings the
\* number of distinct versions above listvers, whatever the other keys hold.
C1_VersionCap ==
    SectionReturned =>
        \A key \in Range(KeysOf(CallCandidates)) :
            LET kept == KeptOf(key)
                sorted == SortedDesc(FilesOf(CallCandidates, key))
                n == Len(kept)
            IN  /\ Cardinality(Versions(kept)) <= Listvers(args.section)
                /\ n <= Len(sorted)
                /\ kept = SubSeq(sorted, 1, n)
                /\ n < Len(sorted) =>
                     Cardinality(Versions(SubSeq(sorted, 1, n + 1)))
                        > Listvers(args.section)

\* a call with key_by where one key is cut after its first version while
\* the returned list as a whole holds more versions than listvers
C1_Witness ==
    /\ SectionReturned
    /\ "key_by" \in DOMAIN args.section
    /\ Cardinality(Versions(ret.value)) > Listvers(args.section)
    /\ \E key \in Range(KeysOf(CallCandidates)) :
          /\ KeptOf(key) # << >>
          /\ Len(KeptOf(key)) < Len(FilesOf(CallCandidates, key))

\* a rule section lacks its pattern or its location(s)
LacksPatternOrLocation(section) ==
    Locations(section) = << >> \/ Get(section, "pattern", "") = ""

\* the sections without the rule sections named in `names`
Without(sections, names) ==
    SelectSeq(sections, LAMBDA e : e.sname \notin Range(names))

RuleNames(sections) ==
    { sections[k].sname : k \in { i \in 1..Len(sections) : ~Reserved(sections[i].sname) } }

\* C2: in non-strict mode, when rules fail for a missing pattern or missing
\* location(s), the call evaluates every rule and returns the listing the
\* other rules produce without the failing ones, with exit_with_error set.
C2_FailureIsolated ==
    ( /\ op = "gen_from_sections" /\ ~args.strict
      /\ pc \in {"returned", "raised"}
      /\ failed # << >>
      /\ \A k \in 1..Len(failed) : LacksPatternOrLocation(Includes[failed[k]]) )
    => /\ pc = "returned"
       /\ exit_with_error
       /\ Range(evaluated) = RuleNames(args.sections)
       /\ ret.value =
            gen_from_sections(Without(args.sections, failed), FALSE, args.tree).value

\* C3: in strict mode the first rule whose evaluation raises ends the call
\* with that error: nothing is returned, no later rule is evaluated, and
\* exit_with_error is already true.
C3_StrictRaises ==
    ( /\ op = "gen_from_sections" /\ args.strict
      /\ pc = "raised" /\ idx <= Len(args.sections) )
    => /\ exit_with_error
       /\ ret.value = << >>
       /\ \A k \in (idx + 1)..Len(args.sections) :
             args.sections[k].sname \notin Range(evaluated)

\* the priority table names the distribution
InTable(sections, distro) ==
    \E k \in 1..Len(SectionNamed(sections, "%distro%", << >>)) :
        /\ StartsWith(SectionNamed(sections, "%distro%", << >>)[k][1], "d")
        /\ SectionNamed(sections, "%distro%", << >>)[k][2] = distro

\* the position of a group's key in the pooled results
PooledAt(distro, category) ==
    CHOOSE k \in 1..Len(results) : results[k].key = <<distro, category>>

\* C4: the returned groups are in ascending order of their table key, every
\* group of a distribution in the table before every group of one that is
\* not, and the latter in the order in which they were pooled.
C4_GroupOrder ==
    GenReturned =>
        \A i, j \in 1..Len(ret.value) :
            i < j =>
                LET g == ret.value[i]
                    h == ret.value[j]
                IN  /\ (InTable(args.sections, g.distro) /\ InTable(args.sections, h.distro))
                          => dN(args.sections, g.distro) <= dN(args.sections, h.distro)
                    /\ ~(~InTable(args.sections, g.distro) /\ InTable(args.sections, h.distro))
                    /\ (~InTable(args.sections, g.distro) /\ ~InTable(args.sections, h.distro))
                          => PooledAt(g.distro, g.category) < PooledAt(h.distro, h.category)

\* C5: where the candidates of a key carry more than listvers distinct
\* versions, the returned items of the key carry exactly listvers distinct
\* versions, and every candidate that carries one of them is returned.
C5_WholeVersions ==
    SectionReturned =>
        \A key \in Range(KeysOf(CallCandidates)) :
            LET all == FilesOf(CallCandidates, key)
                kept == KeptOf(key)
            IN  Cardinality(Versions(all)) > Listvers(args.section) =>
                  /\ Cardinality(Versions(kept)) = Listvers(args.section)
                  /\ Len(SelectSeq(all, LAMBDA c : c.version \in Versions(kept)))
                        = Len(kept)

\* the orderings of the sections: the reserved sections, then the rule
\* sections in any order
Reorderings(sections) ==
    LET head == SelectSeq(sections, LAMBDA e : Reserved(e.sname))
        rules == SelectSeq(sections, LAMBDA e : ~Reserved(e.sname))
        perms == { q \in [1..Len(rules) -> 1..Len(rules)] :
                     \A a, b \in 1..Len(rules) : a # b => q[a] # q[b] }
    IN  { head \o [k \in 1..Len(rules) |-> rules[q[k]]] : q \in perms }

\* the entries of the group of a listing, << >> if it has no such group
UrlsOf(listing, distro, category) ==
    IF \E k \in 1..Len(listing) :
          listing[k].distro = distro /\ listing[k].category = category
    THEN listing[CHOOSE k \in 1..Len(listing) :
            listing[k].distro = distro /\ listing[k].category = category].urls
    ELSE << >>

Count(seq, x) == Cardinality({ k \in 1..Len(seq) : seq[k] = x })

SameBag(s, t) == \A x \in Range(s) \cup Range(t) : Count(s, x) = Count(t, x)

\* C6 as claimed: whatever the order of the rule sections, every group of
\* the returned listing holds the same sequence of entries.
C6_SameSequence ==
    GenReturned =>
        \A other \in Reorderings(args.sections) :
            LET o == gen_from_sections(other, args.strict, args.tree)
            IN  ~o.raised =>
                  \A k \in 1..Len(ret.value) :
                      UrlsOf(o.value, ret.value[k].distro, ret.value[k].category)
                         = ret.value[k].urls

\* the items the rule sections of one group contribute, rule by rule
Contributions(sections, tree, key) ==
    LET rules == SelectSeq(sections,
                     LAMBDA e : /\ ~Reserved(e.sname)
                                /\ "distro" \in DOMAIN e.section
                                /\ GroupKey(e.section) = key
                                /\ SectionError(e.section, tree) = "")
    IN  [k \in 1..Len(rules) |-> parse_section(rules[k].section, tree).items]

\* the sort keys of a group are of one shape and totally ordered, and no
\* two items of different rules have equal sort keys
NoCrossTie(sections, tree, key) ==
    LET parts == Contributions(sections, tree, key)
    IN  /\ \A a, b \in 1..Len(parts) :
              \A x \in Range(parts[a]), y \in Range(parts[b]) :
                  /\ x.sort_weight[1].ty = y.sort_weight[1].ty
                  /\ KeyCmp(x.sort_weight, y.sort_weight) # "err"
        /\ \A a, b \in 1..Len(parts) :
              a # b => \A x \in Range(parts[a]), y \in Range(parts[b]) :
                           KeyCmp(x.sort_weight, y.sort_weight) # "eq"

\* C6, amended: whatever the order of the rule sections, every group of the
\* returned listing holds the same entries, each as often; and the same
\* sequence where the sort keys of the group are of one shape and no two
\* items of different rules have equal sort keys.
C6_SameEntries ==
    GenReturned =>
        \A other \in Reorderings(args.sections) :
            LET o == gen_from_sections(other, args.strict, args.tree)
            IN  ~o.raised =>
                  /\ Len(o.value) = Len(ret.value)
                  /\ \A k \in 1..Len(ret.value) :
                        LET g == ret.value[k]
                            urls == UrlsOf(o.value, g.distro, g.category)
                        IN  /\ SameBag(urls, g.urls)
                            /\ NoCrossTie(args.sections, args.tree,
                                          <<g.distro, g.category>>)
                                 => urls = g.urls

\* two rules have put items with different sort keys into one group
C6_Witness ==
    /\ GenReturned
    /\ \E k \in 1..Len(ret.value) :
          LET key == <<ret.value[k].distro, ret.value[k].category>>
              parts == Contributions(args.sections, args.tree, key)
          IN  /\ Len(parts) = 2
              /\ parts[1] # << >> /\ parts[2] # << >>
              /\ NoCrossTie(args.sections, args.tree, key)

\* the architecture tiers of the claim, 4 the most preferred, 0 unrecognised
Tier(platform) ==
    CASE platform \in {"amd64", "x86_64", "64bit"} -> 4
      [] platform \in {"arm64", "aarch64", "arm64v8", "riscv64", "loongson2f",
                       "loongson3"} -> 3
      [] platform \in {"i386", "i486", "i586", "i686", "x86", "32bit"} -> 2
      [] platform \in {"arm32", "armhf", "armv7"} -> 1
      [] platform = "unknown" -> 0
      [] OTHER -> -1

\* C7: a token of a higher tier scores higher than the returned score of a
\* token of a lower tier, and every tier scores higher than "unknown".
C7_TierOrder ==
    (op = "get_platform_priority" /\ pc = "returned" /\ Tier(args.platform) >= 0) =>
        \A q \in Platforms :
            Tier(q) > Tier(args.platform) => get_platform_priority(q) > ret.value

\* C8: in non-strict mode no error reaches the caller of gen_from_sections.
C8_NonStrictReturns ==
    (op = "gen_from_sections" /\ ~args.strict) => pc # "raised"

\* C9: after a call that returns, exit_with_error is true if and only if a
\* rule evaluated by that call raised.
C9_FlagOfThisCall ==
    GenReturned => (exit_with_error <=> failed # << >>)

\* C10: no group of the returned listing holds a URL twice.
C10_NoDuplicateUrl ==
    GenReturned =>
        \A k \in 1..Len(ret.value) :
            \A i, j \in 1..Len(ret.value[k].urls) :
                i # j => ret.value[k].urls[i].url # ret.value[k].urls[j].url

====
